---- MODULE Spec2Model ----
(***************************************************************************)
(* check-gosnmp-cpu: the Icinga2 CPU load plugin.  One run of the plugin:  *)
(* main parses the flags, opens the SNMP session, calls cpu.Load.Get,      *)
(* which dispatches on the check type to one of seven strategies, and      *)
(* prints the report and exits with the check's return value.              *)
(*                                                                         *)
(* Text that the code parses, compares or sorts (thresholds, entity names) *)
(* is a sequence of one-character strings; text that the code only builds  *)
(* (labels, messages, object identifiers) is a string built with \o.       *)
(***************************************************************************)
EXTENDS Integers, Sequences, FiniteSets, TLC

(***************************************************************************)
(* Characters and strings                                                  *)
(***************************************************************************)

\* The printable ASCII characters, in code order starting at 32 (the double
\* quote, 34, the backslash, 92, and the back quote, 96, are written as words).
Ascii ==
 <<
    " ", "!", "dquote", "#", "$", "%", "&", "'", "(", ")", "*", "+", ",", "-", ".", "/",
    "0", "1", "2", "3", "4", "5", "6", "7", "8", "9", ":", ";", "<", "=", ">", "?",
    "@", "A", "B", "C", "D", "E", "F", "G", "H", "I", "J", "K", "L", "M", "N", "O",
    "P", "Q", "R", "S", "T", "U", "V", "W", "X", "Y", "Z", "[", "bslash", "]", "^", "_",
    "bquote", "a", "b", "c", "d", "e", "f", "g", "h", "i", "j", "k", "l", "m", "n", "o",
    "p", "q", "r", "s", "t", "u", "v", "w", "x", "y", "z", "{", "|", "}", "~"
 >>

\* The byte value of a character (Go compares strings byte-wise).
AsciiCode == [ch \in {Ascii[i] : i \in 1..Len(Ascii)} |->
                31 + (CHOOSE i \in 1..Len(Ascii) : Ascii[i] = ch)]
Ord(ch) == AsciiCode[ch]

\* The string of a character sequence (the text as Go holds it).
RECURSIVE Str(_)
Str(cs) == IF cs = << >> THEN "" ELSE Head(cs) \o Str(Tail(cs))

\* unicode.ToUpper on one ASCII character, and strings.ToUpper.
UpperCh(ch) == IF Ord(ch) >= 97 /\ Ord(ch) <= 122 THEN Ascii[Ord(ch) - 32 - 31] ELSE ch
ToUpper(cs) == [i \in 1..Len(cs) |-> UpperCh(cs[i])]

\* strings.Contains(s, sub).
Contains(s, sub) ==
    \E i \in 0..(Len(s) - Len(sub)) : SubSeq(s, i + 1, i + Len(sub)) = sub

\* s < t in Go's string order: byte-wise lexicographic, a proper prefix first.
StrLess(s, t) ==
    \E i \in 1..(Len(t)) :
        /\ i <= Len(s) + 1
        /\ SubSeq(s, 1, i - 1) = SubSeq(t, 1, i - 1)
        /\ (i = Len(s) + 1 \/ Ord(s[i]) < Ord(t[i]))

Digits == <<"0", "1", "2", "3", "4", "5", "6", "7", "8", "9">>
IsDigit(ch) == \E i \in 1..10 : Digits[i] = ch
DigitVal(ch) == (CHOOSE i \in 1..10 : Digits[i] = ch) - 1

RECURSIVE DigitsVal(_)
DigitsVal(cs) ==
    IF cs = << >> THEN 0
    ELSE 10 * DigitsVal(SubSeq(cs, 1, Len(cs) - 1)) + DigitVal(cs[Len(cs)])

\* strconv.Atoi: an optional sign and at least one decimal digit.
AtoiBody(cs) == IF cs # << >> /\ Head(cs) \in {"+", "-"} THEN Tail(cs) ELSE cs
AtoiOk(cs) ==
    /\ AtoiBody(cs) # << >>
    /\ \A i \in 1..Len(AtoiBody(cs)) : IsDigit(AtoiBody(cs)[i])
Atoi(cs) ==
    IF Head(cs) = "-" THEN 0 - DigitsVal(AtoiBody(cs)) ELSE DigitsVal(AtoiBody(cs))

\* strconv.Itoa, and fmt.Sprintf("%d", n).
RECURSIVE NatDigits(_)
NatDigits(n) ==
    IF n < 10 THEN <<Digits[n + 1]>> ELSE Append(NatDigits(n \div 10), Digits[(n % 10) + 1])
Itoa(n) == IF n < 0 THEN <<"-">> \o NatDigits(0 - n) ELSE NatDigits(n)

\* fmt.Sprintf("%.2f", float64(v)/100): v/100 has at most two decimals, so
\* the nearest two-decimal text is the exact quotient.
Fmt2(v) ==
    LET a == IF v < 0 THEN 0 - v ELSE v
    IN  (IF v < 0 THEN <<"-">> ELSE << >>)
            \o NatDigits(a \div 100) \o <<".">>
            \o <<Digits[((a % 100) \div 10) + 1], Digits[(a % 10) + 1]>>

(***************************************************************************)
(* Bounds and the inputs of a run                                          *)
(***************************************************************************)

\* The largest processor table a walk answers with.
MaxRows == 4

\* The most rows a walk of jnxOperatingDescr answers with.
MaxEngines == 2

\* The -t values tried: the seven check types, a misspelling ("systat" is how
\* the -w help text spells sysstats), another string and no value.
CtypeInputs ==
    {"host", "sysstats", "loadavg", "jnx", "cisco", "rcsw", "moxasw",
     "systat", "HOST", ""}

\* The -w and -c values tried: plain integers, a range expression ("5:") and
\* text that is no threshold at all.
ThresholdInputs ==
    { <<<<"1", "2">>, <<"2", "0">>>>,
      <<<<"1", "0", "0">>, <<"1", "5", "0">>>>,
      <<<<"8">>, <<"3", "0">>>>,
      <<<<"5", ":">>, <<"2", "0">>>>,
      <<<<"x">>, <<"2", "0">>>>,
      <<<<"1", "2">>, <<"x">>>> }

\* The values a device reports in a row of hrProcessorLoad.
RowVals == {0, 1, 50}

\* The values a device reports for a percentage scalar (ssCpu*, Ruggedcom,
\* Moxa), and for laLoadInt.
StatVals == {5, 90}
LoadVals == {30, 380}

\* The rows a device has in jnxOperatingTable, their descriptions, and the
\* value of a gauge it reports.
JnxIdx == {"9." \o Str(Itoa(i)) \o ".0.0" : i \in 1..MaxEngines}
JnxDescr == {<<"R", "o", "u", "t", "i", "n", "g", " ", "E", "n", "g", "i", "n", "e", " ", "0">>,
             <<"r", "o", "u", "t", "i", "n", "g", " ", "e", "n", "g", "i", "n", "e", " ", "1">>,
             <<"F", "P", "C", " ", "0">>}
JnxVals == {10}

\* The rows a device has in cpmCPUTotalTable, their physical indexes, the
\* entity names it reports for them, and the value of a counter it reports.
CiscoIdx == {"1", "2"}
CiscoPhys == {0, 7, 9}
CiscoEntNames == {<< >>, <<"C", "P", "U", "0">>, <<"S", "u", "p">>}
CiscoVals == {10}

\* The sysObjectID a Moxa switch reports.
MoxaRoot == ".1.3.6.1.4.1.8691.7.69"

(***************************************************************************)
(* State                                                                   *)
(***************************************************************************)

VARIABLES
    pc,         \* where main is: "main", "Get", "ret", "exit"
    ver,        \* flag -v
    hostValid,  \* whether net.ParseIP accepts the -H value
    Ctype,      \* flag -t
    Warn,       \* flag -w
    Crit,       \* flag -c
    trace,      \* what the run has done so far, in program order: strategy
                \* calls, SNMP requests, classifications, and the records and
                \* status lines appended to the check
    err,        \* what Load.Get returned
    printed,    \* what main wrote to standard output
    exitCode    \* the argument of os.Exit, -1 while running

vars == <<pc, ver, hostValid, Ctype, Warn, Crit, trace, err, printed, exitCode>>

(***************************************************************************)
(* Object identifiers (cpu.go)                                             *)
(***************************************************************************)

sysObjectID == ".1.3.6.1.2.1.1.2.0"
hrProcessorLoad == ".1.3.6.1.2.1.25.3.3.1.2"
ssCpuUser == ".1.3.6.1.4.1.2021.11.9.0"
ssCpuSystem == ".1.3.6.1.4.1.2021.11.10.0"
ssCpuRawIdle == ".1.3.6.1.4.1.2021.11.11.0"
laLoadInt == ".1.3.6.1.4.1.2021.10.1.5"
jnxOperatingDescr == ".1.3.6.1.4.1.2636.3.1.13.1.5"
jnxOperatingCPU == ".1.3.6.1.4.1.2636.3.1.13.1.8"
jnxOperating1MinLoadAvg == ".1.3.6.1.4.1.2636.3.1.13.1.20"
jnxOperating5MinLoadAvg == ".1.3.6.1.4.1.2636.3.1.13.1.21"
cpmCPUTotalPhysicalIndex == ".1.3.6.1.4.1.9.9.109.1.1.1.1.2"
cpmCPUTotal1minRev == ".1.3.6.1.4.1.9.9.109.1.1.1.1.7"
cpmCPUTotal5minRev == ".1.3.6.1.4.1.9.9.109.1.1.1.1.8"
entPhysicalName == ".1.3.6.1.2.1.47.1.1.1.1.7"
rcDeviceStsCpuUsagePercent == ".1.3.6.1.4.1.15004.4.2.2.6.0"

(***************************************************************************)
(* The SNMP accessor (snmphelper) as the strategies use it                 *)
(***************************************************************************)

\* A value of an SnmpOut map; a lookup of a missing key yields the zero value.
ZeroVal == [Integer |-> 0, Gauge32 |-> 0, OctetString |-> << >>, ObjectIdentifier |-> ""]
IntegerVal(n) == [ZeroVal EXCEPT !.Integer = n]
GaugeVal(n) == [ZeroVal EXCEPT !.Gauge32 = n]
OctetVal(cs) == [ZeroVal EXCEPT !.OctetString = cs]
OidVal(o) == [ZeroVal EXCEPT !.ObjectIdentifier = o]
Lookup(res, key) == IF key \in DOMAIN res THEN res[key] ELSE ZeroVal

\* The empty SnmpOut, and a failed request.
NoRows == [k \in {} |-> ZeroVal]
SnmpFail == [err |-> TRUE, res |-> NoRows]
SnmpOk(res) == [err |-> FALSE, res |-> res]

\* The row indexes of a walked table with n rows.
RowIdx(n) == {Str(Itoa(i)) : i \in 1..n}

\* Every SnmpOut with the keys of a subset of keys and values from vals.
Answers(keys, vals) == UNION {[ks -> vals] : ks \in SUBSET keys}

\* The requests a strategy issues, as events of the trace: what was asked and
\* what the device answered.
WalkEv(oid, ans) == [k |-> "walk", oid |-> oid, err |-> ans.err, res |-> ans.res]
GetEv(oids, ans) == [k |-> "get", oids |-> oids, err |-> ans.err, res |-> ans.res]

(***************************************************************************)
(* The check (icingahelper.IcingaCheck) as the strategies use it           *)
(***************************************************************************)

\* check.AddPerfData and check.AddMsg append to the check; the long text of
\* a status line is always empty.
AddPerfData(label, value, unit, warn, crit, min, max) ==
    [k |-> "perf", label |-> label, value |-> value, unit |-> unit,
     warn |-> warn, crit |-> crit, min |-> min, max |-> max]
AddMsg(level, short) == [k |-> "msg", level |-> level, short |-> short]

IsPerf(e) == e.k = "perf"
IsMsg(e) == e.k = "msg"
IsSink(e) == e.k \in {"perf", "msg"}
IsSnmp(e) == e.k \in {"walk", "get"}
IsAlarm(e) == e.k = "alarm"
IsCall(e) == e.k = "call"

\* The Result Sink's content, in append order.
Sink(tr) == SelectSeq(tr, IsSink)
PerfData(tr) == SelectSeq(tr, IsPerf)
Msgs(tr) == SelectSeq(tr, IsMsg)

\* check.RetVal(): unknown (3) for a new check, else the worst severity of the
\* status lines appended so far.
RECURSIVE MaxLevel(_)
MaxLevel(ms) ==
    IF ms = << >> THEN 0
    ELSE LET m == MaxLevel(Tail(ms)) IN IF Head(ms).level > m THEN Head(ms).level ELSE m
RetVal(tr) == IF Msgs(tr) = << >> THEN 3 ELSE MaxLevel(Msgs(tr))

\* A threshold expression the evaluator accepts: a plain integer, or the
\* range "N:" (alert below N).
IsRange(t) == Len(t) >= 2 /\ t[Len(t)] = ":" /\ AtoiOk(SubSeq(t, 1, Len(t) - 1))
ThresholdOk(t) == AtoiOk(t) \/ IsRange(t)
Alerts(v, t) ==
    IF AtoiOk(t) THEN v >= Atoi(t) ELSE v < Atoi(SubSeq(t, 1, Len(t) - 1))

\* check.AlarmLevel(v, warn, crit).
AlarmLevel(v, warn, crit) ==
    IF ~(ThresholdOk(warn) /\ ThresholdOk(crit)) THEN [err |-> TRUE, level |-> 3]
    ELSE [err |-> FALSE,
          level |-> IF Alerts(v, crit) THEN 2 ELSE IF Alerts(v, warn) THEN 1 ELSE 0]
AlarmEv(v, warn, crit) == [k |-> "alarm", v |-> v, warn |-> warn, crit |-> crit]

(***************************************************************************)
(* Results of a strategy: the events it added and the error it returned    *)
(***************************************************************************)

NoErr == "nil"
Ret(ev, e) == [ev |-> ev, err |-> e]

(***************************************************************************)
(* calcCPUData and the host strategy                                       *)
(***************************************************************************)

RECURSIVE SumInteger(_, _)
SumInteger(data, keys) ==
    IF keys = {} THEN 0
    ELSE LET key == CHOOSE key \in keys : TRUE
         IN  data[key].Integer + SumInteger(data, keys \ {key})

\* A division that drops the fraction before rounding, float64(loadSum / cnt).
RoundDiv_Truncating(loadSum, cnt) == loadSum \div cnt

\* int64(math.Round(float64(loadSum) / float64(cnt))): halves away from zero.
RoundDiv(loadSum, cnt) ==
    IF loadSum >= 0 THEN (2 * loadSum + cnt) \div (2 * cnt)
    ELSE 0 - ((2 * (0 - loadSum) + cnt) \div (2 * cnt))

calcCPUData(data) ==
    LET cnt == Cardinality(DOMAIN data)
    IN  IF cnt = 0 THEN [err |-> TRUE, cpuCnt |-> 0, load |-> 0]
        ELSE [err |-> FALSE, cpuCnt |-> cnt,
              load |-> RoundDiv(SumInteger(data, DOMAIN data), cnt)]

\* A report whose usage record has lost its bounds.
HostReport_NoBounds(cpuData, level) ==
    << AddPerfData("'cpu usage'", Str(Itoa(cpuData.load)), "%", Str(Warn), Str(Crit), "", ""),
       AddPerfData("'cpu count'", Str(Itoa(cpuData.cpuCnt)), "", "", "", "", ""),
       AddPerfData("dummy", "0", "", "", "", "", ""),
       AddMsg(level, Str(Itoa(cpuData.cpuCnt)) \o " CPUs; load "
                        \o Str(Itoa(cpuData.load)) \o "%") >>

\* What hostLoad appends to the check once the load is classified.
HostReport(cpuData, level) ==
    << AddPerfData("'cpu usage'", Str(Itoa(cpuData.load)), "%", Str(Warn), Str(Crit), "0", "100"),
       AddPerfData("'cpu count'", Str(Itoa(cpuData.cpuCnt)), "", "", "", "", ""),
       AddPerfData("dummy", "0", "", "", "", "", ""),
       AddMsg(level, Str(Itoa(cpuData.cpuCnt)) \o " CPUs; load "
                        \o Str(Itoa(cpuData.load)) \o "%") >>

hostLoad(walk) ==
    LET e1 == <<WalkEv(hrProcessorLoad, walk)>>
        cpuData == calcCPUData(walk.res)
        al == AlarmLevel(cpuData.load, Warn, Crit)
        e2 == Append(e1, AlarmEv(cpuData.load, Warn, Crit))
    IN  IF walk.err THEN Ret(e1, "SnmpError")
        ELSE IF cpuData.err THEN Ret(e1, "NoProcessorsFound")
        ELSE IF al.err THEN Ret(e2, "ThresholdSyntaxError")
        ELSE Ret(e2 \o HostReport(cpuData, al.level), NoErr)

(***************************************************************************)
(* The sysstats strategy                                                   *)
(***************************************************************************)

\* The idle value taken for the used percentage.
CpuUsed_Idle(idle) == idle

\* d["used"]
CpuUsed(idle) == 100 - idle

cpuLoad(get) ==
    LET e1 == <<GetEv(<<ssCpuUser, ssCpuSystem, ssCpuRawIdle>>, get)>>
        used == CpuUsed(Lookup(get.res, ssCpuRawIdle).Integer)
        user == Lookup(get.res, ssCpuUser).Integer
        sys == Lookup(get.res, ssCpuSystem).Integer
        al == AlarmLevel(used, Warn, Crit)
        e2 == Append(e1, AlarmEv(used, Warn, Crit))
    IN  IF get.err THEN Ret(e1, "SnmpError")
        ELSE IF al.err THEN Ret(e2, "ThresholdSyntaxError")
        ELSE Ret(e2 \o <<
                AddPerfData("cpu_prct_used", Str(Itoa(used)), "%", Str(Warn), Str(Crit), "0", "100"),
                AddPerfData("cpu_prct_user", Str(Itoa(user)), "%", "", "", "0", "100"),
                AddPerfData("cpu_prct_system", Str(Itoa(sys)), "%", "", "", "0", "100"),
                AddMsg(al.level, "load " \o Str(Itoa(used)) \o "%"),
                AddMsg(al.level, "user " \o Str(Itoa(user)) \o "%"),
                AddMsg(al.level, "system " \o Str(Itoa(sys)) \o "%") >>,
                 NoErr)

(***************************************************************************)
(* The loadavg strategy                                                    *)
(***************************************************************************)

\* The offset taken from the operator's percentage for a window.
WindowOffset(p) == CASE p = "l1" -> 0 [] p = "l5" -> 5 [] p = "l15" -> 10

\* The levels with the offset taken after the scaling, not before it.
WindowLevel_FlatOffset(pCnt, perc, p) == pCnt * perc - WindowOffset(p)

\* w1, w5, w15 (and c1, c5, c15): pCnt * (perc - offset).
WindowLevel(pCnt, perc, p) == pCnt * (perc - WindowOffset(p))

\* The entry of the loads table for window p.
LoadEntry(pCnt, wPerc, cPerc, p) ==
    LET w == WindowLevel(pCnt, wPerc, p)
        c == WindowLevel(pCnt, cPerc, p)
    IN  [oid |-> laLoadInt \o (CASE p = "l1" -> ".1" [] p = "l5" -> ".2" [] p = "l15" -> ".3"),
         name |-> CASE p = "l1" -> "load_1_min" [] p = "l5" -> "load_5_min"
                    [] p = "l15" -> "load_15_min",
         warn |-> Itoa(w), crit |-> Itoa(c),
         wReal |-> Str(Fmt2(w)), cReal |-> Str(Fmt2(c))]

\* The loop with the status line of a window appended before its record.
RECURSIVE SysLoadWindows_StatusFirst(_, _, _, _)
SysLoadWindows_StatusFirst(ps, loads, res, ev) ==
    IF ps = << >> THEN Ret(ev, NoErr)
    ELSE LET p == Head(ps)
             v == Lookup(res, loads[p].oid).Integer
             al == AlarmLevel(v, loads[p].warn, loads[p].crit)
             e1 == Append(ev, AlarmEv(v, loads[p].warn, loads[p].crit))
             vReal == Str(Fmt2(v))
         IN  IF al.err THEN Ret(e1, "ThresholdSyntaxError")
             ELSE SysLoadWindows_StatusFirst(Tail(ps), loads, res,
                    e1 \o << AddMsg(al.level, p \o " " \o vReal),
                             AddPerfData(loads[p].name, vReal, "", loads[p].wReal,
                                         loads[p].cReal, "0", "") >>)

\* The loop over l1, l5, l15: classify, then one record and one status line.
RECURSIVE SysLoadWindows(_, _, _, _)
SysLoadWindows(ps, loads, res, ev) ==
    IF ps = << >> THEN Ret(ev, NoErr)
    ELSE LET p == Head(ps)
             v == Lookup(res, loads[p].oid).Integer
             al == AlarmLevel(v, loads[p].warn, loads[p].crit)
             e1 == Append(ev, AlarmEv(v, loads[p].warn, loads[p].crit))
             vReal == Str(Fmt2(v))
         IN  IF al.err THEN Ret(e1, "ThresholdSyntaxError")
             ELSE SysLoadWindows(Tail(ps), loads, res,
                    e1 \o << AddPerfData(loads[p].name, vReal, "", loads[p].wReal,
                                         loads[p].cReal, "0", ""),
                             AddMsg(al.level, p \o " " \o vReal) >>)

sysLoad(walk, get) ==
    LET e1 == <<WalkEv(hrProcessorLoad, walk)>>
        pCnt == Cardinality(DOMAIN walk.res)
        wPerc == Atoi(Warn)
        cPerc == Atoi(Crit)
        loads == [p \in {"l1", "l5", "l15"} |-> LoadEntry(pCnt, wPerc, cPerc, p)]
        e2 == Append(e1, GetEv(<<loads["l1"].oid, loads["l5"].oid, loads["l15"].oid>>, get))
    IN  IF walk.err THEN Ret(e1, "SnmpError")
        ELSE IF pCnt = 0 THEN Ret(e1, "NoProcessorsFound")
        ELSE IF ~AtoiOk(Warn) THEN Ret(e1, "ThresholdNotInteger")
        ELSE IF ~AtoiOk(Crit) THEN Ret(e1, "ThresholdNotInteger")
        ELSE IF get.err THEN Ret(e2, "SnmpError")
        ELSE SysLoadWindows(<<"l1", "l5", "l15">>, loads, get.res,
                            Append(e2, AddMsg(0, Str(Itoa(pCnt)) \o " CPUs")))

(***************************************************************************)
(* The rcsw strategy                                                       *)
(***************************************************************************)

ruggedSwLoad(get) ==
    LET e1 == <<GetEv(<<rcDeviceStsCpuUsagePercent>>, get)>>
        u == Lookup(get.res, rcDeviceStsCpuUsagePercent).Integer
        al == AlarmLevel(u, Warn, Crit)
        e2 == Append(e1, AlarmEv(u, Warn, Crit))
    IN  IF get.err THEN Ret(e1, "SnmpError")
        ELSE IF al.err THEN Ret(e2, "ThresholdSyntaxError")
        ELSE Ret(e2 \o <<
                AddPerfData("cpu_usage", Str(Itoa(u)), "%", Str(Warn), Str(Crit), "0", "100"),
                AddPerfData("dummy1", "0", "", "", "", "", ""),
                AddPerfData("dummy2", "0", "", "", "", "", ""),
                AddMsg(al.level, "usage " \o Str(Itoa(u)) \o "%") >>,
                 NoErr)

(***************************************************************************)
(* The moxasw strategy                                                     *)
(***************************************************************************)

\* The three object identifiers under the device's sysObjectID.
MoxaOids(soi) == <<soi \o ".1.53.0", soi \o ".1.54.0", soi \o ".1.55.0">>

\* One window of the moxasw strategy: classify v against (warn, crit), then
\* one record and one status line; ev and the result are as for a strategy.
MoxaWindow(r, v, warn, crit, label, text) ==
    LET al == AlarmLevel(v, warn, crit)
        e1 == Append(r.ev, AlarmEv(v, warn, crit))
    IN  IF r.err # NoErr THEN r
        ELSE IF al.err THEN Ret(e1, "ThresholdSyntaxError")
        ELSE Ret(e1 \o << AddPerfData(label, Str(Itoa(v)), "%", Str(warn), Str(crit), "0", "100"),
                          AddMsg(al.level, text \o Str(Itoa(v)) \o "%") >>,
                 NoErr)

\* The alarm levels for the 30s and 300s values, from the operator's level.
Moxa30s(level) == Itoa(level - 5)
Moxa300s(level) == Itoa(level - 10)

moxaSwLoad(get1, get2) ==
    LET e1 == <<GetEv(<<sysObjectID>>, get1)>>
        soi == Lookup(get1.res, sysObjectID).ObjectIdentifier
        ol == MoxaOids(soi)
        e2 == Append(e1, GetEv(ol, get2))
        l5 == Lookup(get2.res, ol[1]).Integer
        l30 == Lookup(get2.res, ol[2]).Integer
        l300 == Lookup(get2.res, ol[3]).Integer
        wInt == Atoi(Warn)
        cInt == Atoi(Crit)
        w30s == Moxa30s(wInt)
        c30s == Moxa30s(cInt)
        w300s == Moxa300s(wInt)
        c300s == Moxa300s(cInt)
    IN  IF get1.err THEN Ret(e1, "SnmpError")
        ELSE IF get2.err THEN Ret(e2, "SnmpError")
        ELSE IF ~AtoiOk(Warn) THEN Ret(e2, "ThresholdNotInteger")
        ELSE IF ~AtoiOk(Crit) THEN Ret(e2, "ThresholdNotInteger")
        ELSE MoxaWindow(
                MoxaWindow(
                    MoxaWindow(Ret(e2, NoErr), l5, Warn, Crit, "usage_5s", "usage 5s "),
                    l30, w30s, c30s, "usage_30s", "30s "),
                l300, w300s, c300s, "usage_300s", "300s ")

(***************************************************************************)
(* Go maps, their iteration order, and sort.Strings                        *)
(***************************************************************************)

\* m[key] = val on a map held as a function.
Put(m, key, val) == [x \in DOMAIN m \cup {key} |-> IF x = key THEN val ELSE m[x]]
EmptyMap == [x \in {} |-> 0]

\* The orders in which a range loop can visit the keys S of a map.
Orders(S) ==
    {p \in [1..Cardinality(S) -> S] : \A i, j \in 1..Cardinality(S) : p[i] = p[j] => i = j}

\* sort.Strings: the strings of cn in ascending order.
RECURSIVE Insert(_, _)
Insert(x, sorted) ==
    IF sorted = << >> THEN <<x>>
    ELSE IF StrLess(Head(sorted), x) THEN <<Head(sorted)>> \o Insert(x, Tail(sorted))
    ELSE <<x>> \o sorted

\* The names left in the order of the range over the map.
SortStrings_Unsorted(cn) == cn

RECURSIVE SortStrings(_)
SortStrings(cn) == IF cn = << >> THEN << >> ELSE Insert(Head(cn), SortStrings(Tail(cn)))

(***************************************************************************)
(* The jnx strategy                                                        *)
(***************************************************************************)

RoutingEngine == <<"R", "o", "u", "t", "i", "n", "g", " ", "E", "n", "g", "i", "n", "e">>

\* The rows of the description walk that name a Routing Engine: index -> name.
jnxRE(res) ==
    [i \in {i \in DOMAIN res :
                Contains(ToUpper(res[i].OctetString), ToUpper(RoutingEngine))}
        |-> res[i].OctetString]

\* The three object identifiers fetched for the engine at index i.
JnxOids(i) ==
    <<jnxOperatingCPU \o "." \o i, jnxOperating1MinLoadAvg \o "." \o i,
      jnxOperating5MinLoadAvg \o "." \o i>>

\* The map literal d built from one engine's get result.
JnxData(res, i) ==
    [m \in {"util", "load1", "load5"} |->
        CASE m = "util" -> Lookup(res, JnxOids(i)[1]).Gauge32
          [] m = "load1" -> Lookup(res, JnxOids(i)[2]).Gauge32
          [] m = "load5" -> Lookup(res, JnxOids(i)[3]).Gauge32]

\* The loop over re with the header line of an engine appended as soon as
\* its values are fetched.
RECURSIVE JnxFetch_ReportWhileFetching(_, _, _, _, _)
JnxFetch_ReportWhileFetching(order, re, ans, loads, ev) ==
    IF order = << >> THEN [ev |-> ev, err |-> NoErr, loads |-> loads]
    ELSE LET i == Head(order)
             e1 == Append(ev, GetEv(JnxOids(i), ans[i]))
         IN  IF ans[i].err THEN [ev |-> e1, err |-> "SnmpError", loads |-> loads]
             ELSE JnxFetch_ReportWhileFetching(Tail(order), re, ans,
                           Put(loads, re[i], JnxData(ans[i].res, i)),
                           Append(e1, AddMsg(0, Str(re[i]))))

\* The loop over re, visited in the given order, with the answer ans[i] to
\* the get for engine i: the events, the error and the loads map.
RECURSIVE JnxFetch(_, _, _, _, _)
JnxFetch(order, re, ans, loads, ev) ==
    IF order = << >> THEN [ev |-> ev, err |-> NoErr, loads |-> loads]
    ELSE LET i == Head(order)
             e1 == Append(ev, GetEv(JnxOids(i), ans[i]))
         IN  IF ans[i].err THEN [ev |-> e1, err |-> "SnmpError", loads |-> loads]
             ELSE JnxFetch(Tail(order), re, ans,
                           Put(loads, re[i], JnxData(ans[i].res, i)), e1)

\* The status line, or record and status line, of load1 or load5.
JnxLoadLines(n, d, t) ==
    IF ("load" \o t) \in DOMAIN d
    THEN << AddPerfData("'" \o Str(n) \o " load" \o t \o "'", Str(Itoa(d["load" \o t])),
                        "%", "", "", "0", ""),
            AddMsg(0, "load" \o t \o " " \o Str(Itoa(d["load" \o t])) \o "%") >>
    ELSE << AddMsg(3, "load" \o t \o " Na") >>

\* The loop over the sorted names cn.
RECURSIVE JnxReport(_, _, _)
JnxReport(cn, loads, ev) ==
    IF cn = << >> THEN Ret(ev, NoErr)
    ELSE LET n == Head(cn)
             d == loads[n]
             e1 == Append(ev, AddMsg(0, Str(n)))
             hasUtil == "util" \in DOMAIN d
             v == IF hasUtil THEN d["util"] ELSE 0
             al == AlarmLevel(v, Warn, Crit)
             e2 == IF hasUtil
                   THEN e1 \o << AlarmEv(v, Warn, Crit),
                                 AddPerfData("'" \o Str(n) \o " util'", Str(Itoa(v)), "%",
                                             Str(Warn), Str(Crit), "0", ""),
                                 AddMsg(al.level, "util " \o Str(Itoa(v)) \o "%") >>
                   ELSE Append(e1, AddMsg(3, "util Na"))
         IN  IF hasUtil /\ al.err
             THEN Ret(Append(e1, AlarmEv(v, Warn, Crit)), "ThresholdSyntaxError")
             ELSE JnxReport(Tail(cn), loads,
                            e2 \o JnxLoadLines(n, d, "1") \o JnxLoadLines(n, d, "5"))

\* order: the order of the range over re; ans: the answers to the gets;
\* keys: the order of the range over loads that fills cn.
jnxLoad(walk, order, ans, keys) ==
    LET e1 == <<WalkEv(jnxOperatingDescr, walk)>>
        re == jnxRE(walk.res)
        f == JnxFetch(order, re, ans, EmptyMap, e1)
    IN  IF walk.err THEN Ret(e1, "SnmpError")
        ELSE IF f.err # NoErr THEN Ret(f.ev, f.err)
        ELSE JnxReport(SortStrings(keys), f.loads, f.ev)

(***************************************************************************)
(* The cisco strategy                                                      *)
(***************************************************************************)

CPU0 == <<"C", "P", "U", "0">>

\* The physical index of every row, the rows with index 0 included.
CiscoIDs_All(res) == [i \in DOMAIN res |-> res[i].Integer]

\* After the first loop: the rows named CPU0, and the physical index of the
\* other rows.
CiscoCPU0(res) == [i \in {i \in DOMAIN res : res[i].Integer = 0} |-> CPU0]
CiscoIDs(res) == [i \in {i \in DOMAIN res : res[i].Integer # 0} |-> res[i].Integer]

\* fmt.Sprintf("%s.%d", entPhysicalName, eidx)
EntOid(eidx) == entPhysicalName \o "." \o Str(Itoa(eidx))

\* eo: one identifier per entry of cpuIDs, in the order of the range.
CiscoEo(cpuIDs, order) == [x \in 1..Len(order) |-> EntOid(cpuIDs[order[x]])]

\* names with an entry for every row, the rows with an empty entity name
\* included.
CiscoNames_KeepEmpty(res, ent) ==
    [i \in DOMAIN res |->
        IF res[i].Integer = 0 THEN <<"C", "P", "U", "0">>
        ELSE Lookup(ent, entPhysicalName \o "." \o Str(Itoa(res[i].Integer))).OctetString]

\* names after the loop over cpuIDs that adds the non-empty entity names.
CiscoNames(res, ent) ==
    LET cpuIDs == CiscoIDs(res)
        named == {i \in DOMAIN cpuIDs : Lookup(ent, EntOid(cpuIDs[i])).OctetString # << >>}
    IN  [i \in DOMAIN CiscoCPU0(res) \cup named |->
            IF i \in named THEN Lookup(ent, EntOid(cpuIDs[i])).OctetString ELSE CPU0]

\* lo: the two counters of every entry of names, in the order of the range.
RECURSIVE CiscoLo(_)
CiscoLo(order) ==
    IF order = << >> THEN << >>
    ELSE << cpmCPUTotal1minRev \o "." \o Head(order),
            cpmCPUTotal5minRev \o "." \o Head(order) >> \o CiscoLo(Tail(order))

\* d for the row at idx: a key only for a counter the result holds.
CiscoData(res, idx) ==
    [m \in {m \in {"l1m", "l5m"} :
                (IF m = "l1m" THEN cpmCPUTotal1minRev ELSE cpmCPUTotal5minRev)
                    \o "." \o idx \in DOMAIN res}
        |-> res[(IF m = "l1m" THEN cpmCPUTotal1minRev ELSE cpmCPUTotal5minRev)
                    \o "." \o idx].Gauge32]

\* The loop over names that fills loads, in the order of the range.
RECURSIVE CiscoLoads(_, _, _, _)
CiscoLoads(order, names, res, loads) ==
    IF order = << >> THEN loads
    ELSE CiscoLoads(Tail(order), names, res,
                    Put(loads, names[Head(order)], CiscoData(res, Head(order))))

\* One sub-metric of a CPU: classified and recorded, or "Na".
CiscoLines(r, n, d, m, warn, crit, label, text) ==
    LET v == IF m \in DOMAIN d THEN d[m] ELSE 0
        al == AlarmLevel(v, warn, crit)
        e1 == Append(r.ev, AlarmEv(v, warn, crit))
    IN  IF r.err # NoErr THEN r
        ELSE IF m \notin DOMAIN d THEN Ret(Append(r.ev, AddMsg(3, text \o " Na")), NoErr)
        ELSE IF al.err THEN Ret(e1, "ThresholdSyntaxError")
        ELSE Ret(e1 \o << AddPerfData("'" \o Str(n) \o " " \o label \o "'", Str(Itoa(v)),
                                      "%", Str(warn), Str(crit), "0", ""),
                          AddMsg(al.level, text \o " " \o Str(Itoa(v)) \o "%") >>,
                 NoErr)

\* The loop over the sorted names cn.
RECURSIVE CiscoReport(_, _, _, _, _)
CiscoReport(cn, loads, w5m, c5m, ev) ==
    IF cn = << >> THEN Ret(ev, NoErr)
    ELSE LET n == Head(cn)
             r0 == Ret(Append(ev, AddMsg(0, Str(n))), NoErr)
             r1 == CiscoLines(r0, n, loads[n], "l1m", Warn, Crit, "1min", "1m")
             r2 == CiscoLines(r1, n, loads[n], "l5m", w5m, c5m, "5min", "5m")
         IN  IF r2.err # NoErr THEN r2
             ELSE CiscoReport(Tail(cn), loads, w5m, c5m,
                              Append(r2.ev, AddPerfData("dummy", "0", "", "", "", "", "")))

\* The 5 minute value classified against the operator's own level.
Cisco5m_NoOffset(level) == Itoa(level)

\* The alarm level for the 5 minute value, from the operator's level.
Cisco5m(level) == Itoa(level - 5)

\* idOrder, loOrder, loadOrder, keys: the orders of the ranges over cpuIDs,
\* over names (twice) and over loads; get1, get2: the answers to the gets.
ciscoLoad(walk, idOrder, get1, loOrder, get2, loadOrder, keys) ==
    LET e1 == <<WalkEv(cpmCPUTotalPhysicalIndex, walk)>>
        e2 == Append(e1, GetEv(CiscoEo(CiscoIDs(walk.res), idOrder), get1))
        names == CiscoNames(walk.res, get1.res)
        e3 == Append(e2, GetEv(CiscoLo(loOrder), get2))
        loads == CiscoLoads(loadOrder, names, get2.res, EmptyMap)
        w5m == Cisco5m(Atoi(Warn))
        c5m == Cisco5m(Atoi(Crit))
    IN  IF walk.err THEN Ret(e1, "SnmpError")
        ELSE IF get1.err THEN Ret(e2, "SnmpError")
        ELSE IF get2.err THEN Ret(e3, "SnmpError")
        ELSE IF ~AtoiOk(Warn) THEN Ret(e3, "ThresholdNotInteger")
        ELSE IF ~AtoiOk(Crit) THEN Ret(e3, "ThresholdNotInteger")
        ELSE CiscoReport(SortStrings(keys), loads, w5m, c5m, e3)

(***************************************************************************)
(* main and Load.Get                                                       *)
(***************************************************************************)

Init ==
    /\ pc = "main"
    /\ ver \in BOOLEAN
    /\ hostValid \in BOOLEAN
    /\ Ctype \in CtypeInputs
    /\ \E t \in ThresholdInputs : Warn = t[1] /\ Crit = t[2]
    /\ trace = << >>
    /\ err = NoErr
    /\ printed = ""
    /\ exitCode = -1

Flags == <<ver, hostValid, Ctype, Warn, Crit>>

\* fmt.Println(what); os.Exit(check.RetVal())
Exit(what) ==
    /\ printed' = what
    /\ exitCode' = RetVal(trace)
    /\ pc' = "exit"

\* main up to the call of load.Get: the flag checks and session.New.
mainStart ==
    /\ pc = "main"
    /\ UNCHANGED <<Flags, trace, err>>
    /\ IF ver THEN Exit("plugin version")
       ELSE IF ~hostValid THEN Exit("valid host ip is required")
       ELSE IF Ctype = "" THEN Exit("check type required")
       ELSE \E sessErr \in BOOLEAN :
                IF sessErr THEN Exit("snmp error")
                ELSE pc' = "Get" /\ UNCHANGED <<printed, exitCode>>

\* A switch whose default case runs the host strategy.
Dispatch_DefaultHost(ct) ==
    CASE ct = "sysstats" -> "cpuLoad"
      [] ct = "loadavg" -> "sysLoad"
      [] ct = "jnx" -> "jnxLoad"
      [] ct = "cisco" -> "ciscoLoad"
      [] ct = "rcsw" -> "ruggedSwLoad"
      [] ct = "moxasw" -> "moxaSwLoad"
      [] OTHER -> "hostLoad"

\* The strategy the switch of Load.Get selects.
Dispatch(ct) ==
    CASE ct = "host" -> "hostLoad"
      [] ct = "sysstats" -> "cpuLoad"
      [] ct = "loadavg" -> "sysLoad"
      [] ct = "jnx" -> "jnxLoad"
      [] ct = "cisco" -> "ciscoLoad"
      [] ct = "rcsw" -> "ruggedSwLoad"
      [] ct = "moxasw" -> "moxaSwLoad"
      [] OTHER -> "default"

CallEv(fn) == [k |-> "call", fn |-> fn]

\* Load.Get runs strategy fn with result r and returns its error to main.
Return(fn, r) ==
    /\ trace' = trace \o <<CallEv(fn)>> \o r.ev
    /\ err' = r.err
    /\ pc' = "ret"
    /\ UNCHANGED <<Flags, printed, exitCode>>

\* What a walk of hrProcessorLoad can answer.
ProcWalks ==
    {SnmpFail} \cup
    {SnmpOk(res) : res \in UNION {[RowIdx(n) -> {IntegerVal(v) : v \in RowVals}]
                                    : n \in 0..MaxRows}}

GetHost ==
    /\ pc = "Get" /\ Dispatch(Ctype) = "hostLoad"
    /\ \E walk \in ProcWalks : Return("hostLoad", hostLoad(walk))

GetSysstats ==
    /\ pc = "Get" /\ Dispatch(Ctype) = "cpuLoad"
    /\ \E get \in {SnmpFail} \cup
                  {SnmpOk(res) : res \in Answers({ssCpuUser, ssCpuSystem, ssCpuRawIdle},
                                                 {IntegerVal(v) : v \in StatVals})} :
          Return("cpuLoad", cpuLoad(get))

GetLoadavg ==
    /\ pc = "Get" /\ Dispatch(Ctype) = "sysLoad"
    /\ \E walk \in ProcWalks :
       \E get \in {SnmpFail} \cup
                  {SnmpOk(res) : res \in Answers({laLoadInt \o ".1", laLoadInt \o ".2",
                                                  laLoadInt \o ".3"},
                                                 {IntegerVal(v) : v \in LoadVals})} :
          Return("sysLoad", sysLoad(walk, get))

\* What a walk of jnxOperatingDescr can answer.
JnxWalks ==
    {SnmpFail} \cup {SnmpOk(res) : res \in Answers(JnxIdx, {OctetVal(d) : d \in JnxDescr})}

\* What the get for the engine at index i can answer.
JnxGets(i) ==
    {SnmpFail} \cup
    {SnmpOk(res) : res \in Answers({JnxOids(i)[m] : m \in 1..3},
                                   {GaugeVal(v) : v \in JnxVals})}

\* The loads map of a run with these answers, to draw the order of its keys.
JnxLoads(walk, order, ans) ==
    JnxFetch(order, jnxRE(walk.res), ans, EmptyMap, << >>).loads

GetJnx ==
    /\ pc = "Get" /\ Dispatch(Ctype) = "jnxLoad"
    /\ \E walk \in JnxWalks :
       \E order \in Orders(DOMAIN jnxRE(walk.res)) :
       \E ans \in {f \in [DOMAIN jnxRE(walk.res) ->
                            UNION {JnxGets(i) : i \in DOMAIN jnxRE(walk.res)}] :
                        \A i \in DOMAIN f : f[i] \in JnxGets(i)} :
       \E keys \in Orders(DOMAIN JnxLoads(walk, order, ans)) :
          Return("jnxLoad", jnxLoad(walk, order, ans, keys))

\* What a walk of cpmCPUTotalPhysicalIndex can answer.
CiscoWalks ==
    {SnmpFail} \cup {SnmpOk(res) : res \in Answers(CiscoIdx, {IntegerVal(v) : v \in CiscoPhys})}

\* What a get of the identifiers oids can answer, with values from vals.
GetAnswers(oids, vals) ==
    {SnmpFail} \cup {SnmpOk(res) : res \in Answers({oids[x] : x \in 1..Len(oids)}, vals)}

GetCisco ==
    /\ pc = "Get" /\ Dispatch(Ctype) = "ciscoLoad"
    /\ \E walk \in CiscoWalks :
       \E idOrder \in Orders(DOMAIN CiscoIDs(walk.res)) :
       \E get1 \in GetAnswers(CiscoEo(CiscoIDs(walk.res), idOrder),
                              {OctetVal(n) : n \in CiscoEntNames}) :
       \E loOrder \in Orders(DOMAIN CiscoNames(walk.res, get1.res)) :
       \E get2 \in GetAnswers(CiscoLo(loOrder), {GaugeVal(v) : v \in CiscoVals}) :
       \E loadOrder \in Orders(DOMAIN CiscoNames(walk.res, get1.res)) :
       \E keys \in Orders(DOMAIN CiscoLoads(loadOrder, CiscoNames(walk.res, get1.res),
                                           get2.res, EmptyMap)) :
          Return("ciscoLoad",
                 ciscoLoad(walk, idOrder, get1, loOrder, get2, loadOrder, keys))

GetRcsw ==
    /\ pc = "Get" /\ Dispatch(Ctype) = "ruggedSwLoad"
    /\ \E get \in {SnmpFail} \cup
                  {SnmpOk(res) : res \in Answers({rcDeviceStsCpuUsagePercent},
                                                 {IntegerVal(v) : v \in StatVals})} :
          Return("ruggedSwLoad", ruggedSwLoad(get))

GetMoxasw ==
    /\ pc = "Get" /\ Dispatch(Ctype) = "moxaSwLoad"
    /\ \E get1 \in {SnmpFail} \cup
                   {SnmpOk(res) : res \in Answers({sysObjectID}, {OidVal(MoxaRoot)})} :
       \E get2 \in {SnmpFail} \cup
                   {SnmpOk(res) : res \in
                        Answers({MoxaOids(Lookup(get1.res, sysObjectID).ObjectIdentifier)[i]
                                    : i \in 1..3},
                                {IntegerVal(v) : v \in StatVals})} :
          Return("moxaSwLoad", moxaSwLoad(get1, get2))

GetDefault ==
    /\ pc = "Get" /\ Dispatch(Ctype) = "default"
    /\ err' = "UnknownCheckType"
    /\ pc' = "ret"
    /\ UNCHANGED <<Flags, trace, printed, exitCode>>

\* main after load.Get: the error or the report, then os.Exit(check.RetVal()).
mainExit ==
    /\ pc = "ret"
    /\ UNCHANGED <<Flags, trace, err>>
    /\ IF err # NoErr THEN Exit("error") ELSE Exit("FinalMsg")

Get ==
    \/ GetHost
    \/ GetSysstats
    \/ GetLoadavg
    \/ GetJnx
    \/ GetCisco
    \/ GetRcsw
    \/ GetMoxasw
    \/ GetDefault

Next == mainStart \/ Get \/ mainExit

Spec == Init /\ [][Next]_vars
(***************************************************************************)
(* Reading a run off the state                                             *)
(***************************************************************************)

\* Load.Get has returned to main.
Returned == pc = "ret" \/ (pc = "exit" /\ printed \in {"error", "FinalMsg"})

\* Load.Get ran strategy fn.
Ran(fn) == trace # << >> /\ trace[1] = CallEv(fn)

Calls(tr) == SelectSeq(tr, IsCall)
Requests(tr) == SelectSeq(tr, IsSnmp)
Alarms(tr) == SelectSeq(tr, IsAlarm)

Abs(n) == IF n < 0 THEN 0 - n ELSE n
Count(seq, Test(_)) == Cardinality({j \in DOMAIN seq : Test(seq[j])})

\* The positions in sink of the header lines of the entities named in names,
\* and the lines of the block that the header at h opens.
Headers(sink, names) ==
    {j \in DOMAIN sink : \E n \in names : sink[j] = AddMsg(0, Str(n))}
BlockOf(sink, names, h) ==
    LET later == {j \in Headers(sink, names) : j > h}
        stop == IF later = {} THEN Len(sink) + 1
                ELSE CHOOSE j \in later : \A x \in later : j <= x
    IN  SubSeq(sink, h + 1, stop - 1)

(***************************************************************************)
(* Missing sub-metrics: C1, C2                                             *)
(***************************************************************************)

\* The position in the trace of the get that asked for exactly oids.
GetFor(oids) == CHOOSE j \in DOMAIN trace : trace[j].k = "get" /\ trace[j].oids = oids

\* The block of the entity named n in the sink, whose headers are the names.
BlockNamed(n, names) ==
    LET sink == Sink(trace)
    IN  BlockOf(sink, names, CHOOSE h \in Headers(sink, {n}) : TRUE)

\* How many records with this label, and how many lines with this text at
\* any severity or at severity 3, a block holds.
PerfCount(block, label) == Count(block, LAMBDA e : IsPerf(e) /\ e.label = label)
PerfValueCount(block, label, value) ==
    Count(block, LAMBDA e : IsPerf(e) /\ e.label = label /\ e.value = value)
LineCount(block, short) == Count(block, LAMBDA e : IsMsg(e) /\ e.short = short)
NaCount(block, short) == Count(block, LAMBDA e : e = AddMsg(3, short))

\* The engines a jnx run selected: index -> name.
JnxSelected == jnxRE(trace[2].res)
JnxMetric == <<"util", "load1", "load5">>

\* C1 (for runs whose engines have distinct names): in the jnx strategy,
\* for every selected Routing Engine row and each of util, load1, load5, a
\* sub-metric missing from that engine's get result does not abort the run
\* and yields exactly one "Na" status line of severity UNKNOWN and no
\* performance record, and a sub-metric that is present yields its record.
C1_JnxMissingIsNa ==
    (/\ Ran("jnxLoad") /\ err = NoErr
     /\ \A i, j \in DOMAIN JnxSelected : JnxSelected[i] = JnxSelected[j] => i = j) =>
        \A i \in DOMAIN JnxSelected : \A m \in 1..3 :
            LET res == trace[GetFor(JnxOids(i))].res
                block == BlockNamed(JnxSelected[i], JnxDescr)
                label == "'" \o Str(JnxSelected[i]) \o " " \o JnxMetric[m] \o "'"
            IN  IF JnxOids(i)[m] \in DOMAIN res
                THEN /\ PerfValueCount(block, label,
                                       Str(Itoa(res[JnxOids(i)[m]].Gauge32))) = 1
                     /\ NaCount(block, JnxMetric[m] \o " Na") = 0
                ELSE /\ PerfCount(block, label) = 0
                     /\ NaCount(block, JnxMetric[m] \o " Na") = 1

\* The rows a cisco run named (index -> name), and the answer to the get of
\* their counters.
CiscoNamed == CiscoNames(trace[2].res, trace[3].res)
CiscoCounters == trace[4].res
CiscoAllNames == CiscoEntNames \cup {CPU0}
CiscoBase == <<cpmCPUTotal1minRev, cpmCPUTotal5minRev>>
CiscoLabel == <<"1min", "5min">>
CiscoText == <<"1m", "5m">>

\* What C2 says of the row at idx and its sub-metric m (1: 1-minute, 2:
\* 5-minute).
CiscoRowReported(idx, m) ==
    LET oid == CiscoBase[m] \o "." \o idx
        block == BlockNamed(CiscoNamed[idx], CiscoAllNames)
        label == "'" \o Str(CiscoNamed[idx]) \o " " \o CiscoLabel[m] \o "'"
    IN  IF oid \in DOMAIN CiscoCounters
        THEN LET v == Str(Itoa(CiscoCounters[oid].Gauge32))
             IN  /\ PerfCount(block, label) = 1
                 /\ PerfValueCount(block, label, v) = 1
                 /\ LineCount(block, CiscoText[m] \o " " \o v \o "%") = 1
                 /\ NaCount(block, CiscoText[m] \o " Na") = 0
        ELSE /\ PerfCount(block, label) = 0
             /\ NaCount(block, CiscoText[m] \o " Na") = 1

\* C2: in the cisco strategy, for every named CPU and each of its two
\* sub-metrics, a counter missing from the batched get result does not abort
\* the run and yields exactly one "Na" status line of severity UNKNOWN and no
\* performance record; a counter that is present yields exactly one
\* performance record and one classified status line.
C2_CiscoMissingIsNa ==
    (Ran("ciscoLoad") /\ err = NoErr) =>
        \A idx \in DOMAIN CiscoNamed : \A m \in 1..2 : CiscoRowReported(idx, m)

\* The same holds of every run in which no two rows resolve to one name.
CiscoMissingIsNaUnlessShared ==
    (/\ Ran("ciscoLoad") /\ err = NoErr
     /\ \A i, j \in DOMAIN CiscoNamed : CiscoNamed[i] = CiscoNamed[j] => i = j) =>
        \A idx \in DOMAIN CiscoNamed : \A m \in 1..2 : CiscoRowReported(idx, m)

(***************************************************************************)
(* Fatal errors: C3                                                        *)
(***************************************************************************)

\* C3: whenever the strategy fails with a fatal error, the report is not
\* printed and the process exits with the check's default code, unknown (3).
C3_FatalErrorExitsUnknown ==
    (pc = "exit" /\ err # NoErr) => (printed # "FinalMsg" /\ exitCode = 3)

\* The part of C3 about the report: it is never printed after an error.
FatalErrorPrintsNoReport == (pc = "exit" /\ err # NoErr) => printed = "error"

(***************************************************************************)
(* The host strategy: C4, C5                                               *)
(***************************************************************************)

\* The answer to the walk of hrProcessorLoad in a host run.
HostRows == trace[2].res
HostSum == SumInteger(HostRows, DOMAIN HostRows)
HostN == Cardinality(DOMAIN HostRows)

\* C4: in the host strategy a walk result of N >= 1 rows is reported with
\* processor count N and with the integer nearest to (sum of the rows) / N as
\* the load; a walk result of no rows makes the strategy fail with nothing
\* appended to the check.
C4_HostLoadIsRoundedMean ==
    (Ran("hostLoad") /\ ~trace[2].err) =>
        IF HostN = 0 THEN err = "NoProcessorsFound" /\ Sink(trace) = << >>
        ELSE err = NoErr =>
                \E ld \in 0..100 :
                    /\ 2 * Abs(HostN * ld - HostSum) <= HostN
                    /\ PerfData(trace)[1].value = Str(Itoa(ld))
                    /\ PerfData(trace)[2].value = Str(Itoa(HostN))
                    /\ Msgs(trace)[1].short =
                          Str(Itoa(HostN)) \o " CPUs; load " \o Str(Itoa(ld)) \o "%"

\* A host run over two processors whose mean, 0.5, lies between two integers.
C4_Witness ==
    /\ Ran("hostLoad") /\ err = NoErr /\ pc = "exit"
    /\ HostN = 2 /\ HostSum = 1
    /\ PerfData(trace)[1].value = "1"

\* C5 as stated: a successful host run appends exactly two performance
\* records (usage bounded 0-100, then the processor count without bounds) and
\* exactly one status line stating the count and the load.
C5_HostTwoRecords ==
    (Ran("hostLoad") /\ err = NoErr) =>
        /\ Len(PerfData(trace)) = 2
        /\ PerfData(trace)[1].min = "0" /\ PerfData(trace)[1].max = "100"
        /\ PerfData(trace)[2].min = "" /\ PerfData(trace)[2].max = ""
        /\ Len(Msgs(trace)) = 1
        /\ Msgs(trace)[1].short =
              PerfData(trace)[2].value \o " CPUs; load " \o PerfData(trace)[1].value \o "%"

\* C5 amended: a successful host run appends exactly three performance
\* records, the usage percentage bounded 0-100, the processor count without
\* bounds and a placeholder "dummy" of value 0 without bounds, and then
\* exactly one status line stating the processor count and the load.
C5_HostThreeRecords ==
    (Ran("hostLoad") /\ err = NoErr) =>
        LET sink == Sink(trace) IN
        /\ Len(sink) = 4
        /\ IsPerf(sink[1]) /\ IsPerf(sink[2]) /\ IsPerf(sink[3]) /\ IsMsg(sink[4])
        /\ sink[1].label = "'cpu usage'" /\ sink[1].unit = "%"
        /\ sink[1].min = "0" /\ sink[1].max = "100"
        /\ sink[2].label = "'cpu count'" /\ sink[2].value = Str(Itoa(HostN))
        /\ sink[2].min = "" /\ sink[2].max = ""
        /\ sink[3] = AddPerfData("dummy", "0", "", "", "", "", "")
        /\ sink[4].short =
              sink[2].value \o " CPUs; load " \o sink[1].value \o "%"

\* A host run that reported three processors.
C5_Witness ==
    /\ Ran("hostLoad") /\ err = NoErr /\ pc = "exit" /\ printed = "FinalMsg"
    /\ HostN = 3 /\ Len(PerfData(trace)) = 3

(***************************************************************************)
(* Derived thresholds: C6, C7                                              *)
(***************************************************************************)

\* The processor count and the three raw values of a loadavg run.
LoadN == Cardinality(DOMAIN trace[2].res)
LoadRaw(x) == Lookup(trace[3].res, laLoadInt \o "." \o Str(Itoa(x))).Integer
LoadOffset == <<0, 5, 10>>

\* C6: in a successful loadavg run with N processors and thresholds w, c, the
\* 1, 5 and 15 minute values are classified against (N*w, N*c),
\* (N*(w-5), N*(c-5)) and (N*(w-10), N*(c-10)), and each window's record
\* carries the raw value and these thresholds divided by 100 with two
\* decimals: N = 4, w = 100, c = 150 and raw 380 give (400, 600), "3.80",
\* "4.00" and "6.00".
C6_LoadavgScaledThresholds ==
    (Ran("sysLoad") /\ err = NoErr) =>
        LET w == Atoi(Warn)
            c == Atoi(Crit)
            al == Alarms(trace)
            pd == PerfData(trace)
        IN  /\ LoadN >= 1 /\ AtoiOk(Warn) /\ AtoiOk(Crit)
            /\ Len(al) = 3 /\ Len(pd) = 3
            /\ \A x \in 1..3 :
                  LET wx == LoadN * (w - LoadOffset[x])
                      cx == LoadN * (c - LoadOffset[x])
                  IN  /\ al[x] = AlarmEv(LoadRaw(x), Itoa(wx), Itoa(cx))
                      /\ pd[x].value = Str(Fmt2(LoadRaw(x)))
                      /\ pd[x].warn = Str(Fmt2(wx))
                      /\ pd[x].crit = Str(Fmt2(cx))
                      /\ LoadRaw(x) = 380 => pd[x].value = "3.80"
                      /\ LoadRaw(x) = 30 => pd[x].value = "0.30"
                      /\ LoadRaw(x) = 0 => pd[x].value = "0.00"
            /\ (LoadN = 4 /\ w = 100 /\ c = 150) =>
                  /\ al[1].warn = <<"4", "0", "0">> /\ al[1].crit = <<"6", "0", "0">>
                  /\ al[2].warn = <<"3", "8", "0">> /\ al[2].crit = <<"5", "8", "0">>
                  /\ al[3].warn = <<"3", "6", "0">> /\ al[3].crit = <<"5", "6", "0">>
                  /\ <<pd[1].warn, pd[1].crit>> = <<"4.00", "6.00">>
                  /\ <<pd[2].warn, pd[2].crit>> = <<"3.80", "5.80">>
                  /\ <<pd[3].warn, pd[3].crit>> = <<"3.60", "5.60">>
            /\ (LoadN = 1 /\ w = 8) => pd[3].warn = "-0.02"

\* A run with 4 processors, -w 100 -c 150 and a 1 minute value of 380.
C6_Witness ==
    /\ Ran("sysLoad") /\ err = NoErr /\ pc = "exit"
    /\ LoadN = 4 /\ Warn = <<"1", "0", "0">> /\ Crit = <<"1", "5", "0">>
    /\ LoadRaw(1) = 380
    /\ Alarms(trace)[1] = AlarmEv(380, <<"4", "0", "0">>, <<"6", "0", "0">>)
    /\ PerfData(trace)[1].value = "3.80"

\* The record that follows the classification at position j of the trace is
\* the record of sub-metric m of some CPU.
CiscoRecordOf(j, m) ==
    /\ j < Len(trace) /\ IsPerf(trace[j + 1])
    /\ \E n \in CiscoAllNames :
          trace[j + 1].label = "'" \o Str(n) \o " " \o CiscoLabel[m] \o "'"

\* The three values of a moxasw run.
MoxaRaw(x) ==
    Lookup(trace[3].res, MoxaOids(Lookup(trace[2].res, sysObjectID).ObjectIdentifier)[x]).Integer

\* C7: with thresholds w, c, a cisco run classifies every 1 minute value
\* against (w, c) and every 5 minute value against (w-5, c-5), and a moxasw
\* run classifies the 5s, 30s and 300s values against (w, c), (w-5, c-5) and
\* (w-10, c-10), whatever the number of CPUs and the values fetched; the
\* record of the value carries the same pair.
C7_FlatOffsets ==
    LET w == Atoi(Warn)
        c == Atoi(Crit)
    IN  /\ (Ran("ciscoLoad") /\ err = NoErr) =>
              \A j \in DOMAIN trace : IsAlarm(trace[j]) =>
                  /\ AtoiOk(Warn) /\ AtoiOk(Crit)
                  /\ CiscoRecordOf(j, 1) \/ CiscoRecordOf(j, 2)
                  /\ trace[j + 1].value = Str(Itoa(trace[j].v))
                  /\ trace[j + 1].warn = Str(trace[j].warn)
                  /\ trace[j + 1].crit = Str(trace[j].crit)
                  /\ CiscoRecordOf(j, 1) => trace[j].warn = Warn /\ trace[j].crit = Crit
                  /\ CiscoRecordOf(j, 2) =>
                        trace[j].warn = Itoa(w - 5) /\ trace[j].crit = Itoa(c - 5)
        /\ (Ran("moxaSwLoad") /\ err = NoErr) =>
              /\ AtoiOk(Warn) /\ AtoiOk(Crit)
              /\ Alarms(trace) = << AlarmEv(MoxaRaw(1), Warn, Crit),
                                    AlarmEv(MoxaRaw(2), Itoa(w - 5), Itoa(c - 5)),
                                    AlarmEv(MoxaRaw(3), Itoa(w - 10), Itoa(c - 10)) >>
              /\ Len(PerfData(trace)) = 3
              /\ \A x \in 1..3 :
                    /\ PerfData(trace)[x].warn = Str(Alarms(trace)[x].warn)
                    /\ PerfData(trace)[x].crit = Str(Alarms(trace)[x].crit)

\* A cisco run with -w 12 -c 20 that classified the 5 minute values of two
\* CPUs against (7, 15).
C7_Witness ==
    /\ Ran("ciscoLoad") /\ err = NoErr /\ pc = "exit"
    /\ Warn = <<"1", "2">> /\ Crit = <<"2", "0">>
    /\ Cardinality(Headers(Sink(trace), CiscoAllNames)) = 2
    /\ Cardinality({j \in DOMAIN trace :
                        /\ IsAlarm(trace[j])
                        /\ trace[j].warn = <<"7">> /\ trace[j].crit = <<"1", "5">>
                        /\ CiscoRecordOf(j, 2)}) = 2

(***************************************************************************)
(* The order of the output: C8                                             *)
(***************************************************************************)

\* The name whose header line is at position h of the sink.
NameAt(sink, names, h) == CHOOSE n \in names : sink[h] = AddMsg(0, Str(n))

\* The blocks of sink, with headers among names and sub-metrics among
\* metrics, are in strictly ascending order of name, and each holds nothing
\* but its own entity's lines.
BlocksAscending(sink, names, metrics) ==
    LET hs == Headers(sink, names)
    IN  /\ sink # << >> => 1 \in hs
        /\ \A a, b \in hs :
              a < b => StrLess(NameAt(sink, names, a), NameAt(sink, names, b))
        /\ \A h \in hs :
              LET block == BlockOf(sink, names, h)
              IN  \A x \in DOMAIN block :
                      IsPerf(block[x]) =>
                          \/ block[x].label = "dummy"
                          \/ \E m \in metrics :
                                block[x].label =
                                    "'" \o Str(NameAt(sink, names, h)) \o " " \o m \o "'"

\* C8: in the jnx and cisco strategies the per-entity blocks are appended in
\* strictly ascending lexicographic order of the entity's name, whatever the
\* order in which the walk result and the intermediate maps are enumerated.
C8_BlocksInNameOrder ==
    /\ Ran("jnxLoad") => BlocksAscending(Sink(trace), JnxDescr, {"util", "load1", "load5"})
    /\ Ran("ciscoLoad") => BlocksAscending(Sink(trace), CiscoAllNames, {"1min", "5min"})

\* A jnx run that fetched "routing engine 1" before "Routing Engine 0" and
\* reported them the other way round.
C8_Witness ==
    /\ Ran("jnxLoad") /\ err = NoErr /\ pc = "exit"
    /\ Cardinality(Headers(Sink(trace), JnxDescr)) = 2
    /\ \E i \in DOMAIN JnxSelected :
          /\ JnxSelected[i] = <<"r", "o", "u", "t", "i", "n", "g", " ",
                                "e", "n", "g", "i", "n", "e", " ", "1">>
          /\ trace[3].oids = JnxOids(i)
    /\ Sink(trace)[1] = AddMsg(0, "Routing Engine 0")

(***************************************************************************)
(* Rows with physical index 0: C9                                          *)
(***************************************************************************)

\* The rows of a cisco run's walk and the identifiers of its entity-name get.
CiscoRows == trace[2].res
CiscoAsked == trace[3].oids

\* C9: in the cisco strategy the entity-name get asks for exactly one
\* identifier per row with a non-zero physical index and for none derived
\* from a row with physical index 0, and every row with physical index 0 is
\* labelled "CPU0".
C9_PhysicalIndexZeroIsCPU0 ==
    (Ran("ciscoLoad") /\ Len(trace) >= 3) =>
        /\ \A x \in DOMAIN CiscoAsked : CiscoAsked[x] # EntOid(0)
        /\ \A p \in CiscoPhys \ {0} :
              Cardinality({x \in DOMAIN CiscoAsked : CiscoAsked[x] = EntOid(p)})
                  = Cardinality({i \in DOMAIN CiscoRows : CiscoRows[i].Integer = p})
        /\ Len(CiscoAsked)
              = Cardinality({i \in DOMAIN CiscoRows : CiscoRows[i].Integer # 0})
        /\ \A i \in DOMAIN CiscoRows : CiscoRows[i].Integer = 0 =>
              /\ Len(trace) >= 4 =>
                    \E x \in DOMAIN trace[4].oids :
                        trace[4].oids[x] = cpmCPUTotal1minRev \o "." \o i
              /\ err = NoErr => Headers(Sink(trace), {CPU0}) # {}

\* A cisco run over a row with physical index 0 and a row with physical
\* index 7: one identifier asked for, and a block named CPU0.
C9_Witness ==
    /\ Ran("ciscoLoad") /\ err = NoErr /\ pc = "exit"
    /\ \E i, j \in DOMAIN CiscoRows : CiscoRows[i].Integer = 0 /\ CiscoRows[j].Integer = 7
    /\ CiscoAsked = <<EntOid(7)>>
    /\ Headers(Sink(trace), {CPU0}) # {}

(***************************************************************************)
(* Thresholds that are no integers: C11                                    *)
(***************************************************************************)

\* The strategies that derive thresholds by arithmetic.
Arithmetic == {"sysLoad", "ciscoLoad", "moxaSwLoad"}
PlainIntegers == AtoiOk(Warn) /\ AtoiOk(Crit)

\* C11: in the loadavg, cisco and moxasw strategies a warning or critical
\* threshold that is not a plain integer makes the strategy fail with
\* ThresholdNotInteger before any SNMP get or walk has been issued.
C11_NotIntegerBeforeAnyRequest ==
    \A fn \in Arithmetic :
        (Ran(fn) /\ ~PlainIntegers) =>
            err = "ThresholdNotInteger" /\ Requests(trace) = << >>

\* What the strategies do instead: the thresholds are parsed after the
\* requests that precede the parsing, so the run fails with an earlier error
\* if there is one, with ThresholdNotInteger otherwise, and always before
\* anything is classified or appended.
NotIntegerAfterRequests ==
    \A fn \in Arithmetic :
        (Ran(fn) /\ ~PlainIntegers) =>
            /\ err \in {"SnmpError", "NoProcessorsFound", "ThresholdNotInteger"}
            /\ Requests(trace) # << >>
            /\ Alarms(trace) = << >> /\ Sink(trace) = << >>
            /\ err = "ThresholdNotInteger" =>
                  /\ \A j \in DOMAIN Requests(trace) : ~Requests(trace)[j].err
                  /\ Len(Requests(trace)) =
                        (CASE fn = "sysLoad" -> 1 [] fn = "moxaSwLoad" -> 2
                           [] fn = "ciscoLoad" -> 3)

(***************************************************************************)
(* The output of the loadavg strategy: C12                                 *)
(***************************************************************************)

\* The severity of a value against a pair of plain integers.
Severity(v, warn, crit) == IF v >= crit THEN 2 ELSE IF v >= warn THEN 1 ELSE 0

LoadName == <<"load_1_min", "load_5_min", "load_15_min">>
LoadText == <<"l1", "l5", "l15">>

\* C12: a successful loadavg run appends one status line of severity OK with
\* the processor count, then for the 1, 5 and 15 minute windows in that order
\* one performance record followed by one status line whose severity is the
\* classification of the window's raw value against the window's pair.
C12_LoadavgEmissionOrder ==
    (Ran("sysLoad") /\ err = NoErr) =>
        LET sink == Sink(trace)
        IN  /\ Len(sink) = 7
            /\ sink[1] = AddMsg(0, Str(Itoa(LoadN)) \o " CPUs")
            /\ \A x \in 1..3 :
                  /\ IsPerf(sink[2 * x]) /\ sink[2 * x].label = LoadName[x]
                  /\ sink[2 * x].value = Str(Fmt2(LoadRaw(x)))
                  /\ sink[2 * x + 1] =
                        AddMsg(Severity(LoadRaw(x),
                                        LoadN * (Atoi(Warn) - LoadOffset[x]),
                                        LoadN * (Atoi(Crit) - LoadOffset[x])),
                               LoadText[x] \o " " \o Str(Fmt2(LoadRaw(x))))

\* A run with 2 processors, -w 12 -c 20 and the values 30, 30, 0: the pairs
\* are (24, 40), (14, 30) and (4, 20), so the windows are WARNING, CRITICAL
\* and OK.
C12_Witness ==
    /\ Ran("sysLoad") /\ err = NoErr /\ pc = "exit"
    /\ LoadN = 2 /\ Warn = <<"1", "2">> /\ Crit = <<"2", "0">>
    /\ LoadRaw(1) = 30 /\ LoadRaw(2) = 30 /\ LoadRaw(3) = 0
    /\ Sink(trace)[3] = AddMsg(1, "l1 0.30")
    /\ Sink(trace)[5] = AddMsg(2, "l5 0.30")
    /\ Sink(trace)[7] = AddMsg(0, "l15 0.00")

(***************************************************************************)
(* Rows without an entity name: C13                                        *)
(***************************************************************************)

\* The rows of a cisco run's walk with a non-zero physical index whose
\* entity name is empty or absent in the answer to the entity-name get.
CiscoDropped ==
    {i \in DOMAIN CiscoRows :
        /\ CiscoRows[i].Integer # 0
        /\ Lookup(trace[3].res, EntOid(CiscoRows[i].Integer)).OctetString = << >>}

\* The name of a row that is not dropped.
CiscoRowName(i) ==
    IF CiscoRows[i].Integer = 0 THEN CPU0
    ELSE Lookup(trace[3].res, EntOid(CiscoRows[i].Integer)).OctetString

\* The counters asked for in the batched load get.
CiscoCountersAsked == {trace[4].oids[x] : x \in DOMAIN trace[4].oids}

\* C13: in the cisco strategy a row with a non-zero physical index and an
\* empty or absent entity name is dropped: neither of its counters is asked
\* for and nothing is appended for it, while every other row has both its
\* counters asked for and, in a successful run, is reported in a block under
\* its name.
C13_CiscoUnnamedRowDropped ==
    (Ran("ciscoLoad") /\ Len(trace) >= 4) =>
        LET sink == Sink(trace)
            kept == DOMAIN CiscoRows \ CiscoDropped
        IN  /\ \A i \in CiscoDropped : \A m \in 1..2 :
                  CiscoBase[m] \o "." \o i \notin CiscoCountersAsked
            /\ \A i \in kept : \A m \in 1..2 :
                  CiscoBase[m] \o "." \o i \in CiscoCountersAsked
            /\ Len(trace[4].oids) = 2 * Cardinality(kept)
            /\ err = NoErr =>
                  /\ \A i \in kept : Headers(sink, {CiscoRowName(i)}) # {}
                  /\ Headers(sink, CiscoAllNames) =
                        Headers(sink, {CiscoRowName(i) : i \in kept})
                  /\ \A j \in DOMAIN sink :
                        \/ j \in Headers(sink, CiscoAllNames)
                        \/ \E h \in Headers(sink, {CiscoRowName(i) : i \in kept}) :
                              h < j /\ j <= h + Len(BlockOf(sink, CiscoAllNames, h))
                  /\ kept = {} => sink = << >>

\* A successful run over row 1 with physical index 7 and no entity name and
\* row 2 named "Sup": only the counters of row 2 are asked for and the only
\* block is "Sup".
C13_Witness ==
    /\ Ran("ciscoLoad") /\ err = NoErr /\ pc = "exit"
    /\ CiscoDropped = {"1"} /\ CiscoRows["1"].Integer = 7
    /\ "2" \in DOMAIN CiscoRows /\ CiscoRowName("2") = <<"S", "u", "p">>
    /\ CiscoCountersAsked = {cpmCPUTotal1minRev \o ".2", cpmCPUTotal5minRev \o ".2"}
    /\ Sink(trace)[1] = AddMsg(0, "Sup")
    /\ Cardinality(Headers(Sink(trace), CiscoAllNames)) = 1

(***************************************************************************)
(* The sysstats strategy: C14                                              *)
(***************************************************************************)

\* The idle, user and system values of a sysstats run.
StatIdle == Lookup(trace[2].res, ssCpuRawIdle).Integer
StatUser == Lookup(trace[2].res, ssCpuUser).Integer
StatSystem == Lookup(trace[2].res, ssCpuSystem).Integer

\* C14: in the sysstats strategy the used percentage is 100 minus the idle
\* value, only the used percentage is classified (against the operator's
\* pair), and a successful run appends exactly three performance records, in
\* the order used, user, system, each bounded 0-100 and only the first with
\* thresholds, and then exactly three status lines.
C14_SysstatsUsedIsHundredMinusIdle ==
    (Ran("cpuLoad") /\ ~trace[2].err) =>
        /\ Alarms(trace) = <<AlarmEv(100 - StatIdle, Warn, Crit)>>
        /\ err = NoErr =>
              LET sink == Sink(trace)
                  level == sink[4].level
              IN  /\ Len(sink) = 6
                  /\ sink[1] = AddPerfData("cpu_prct_used", Str(Itoa(100 - StatIdle)), "%",
                                           Str(Warn), Str(Crit), "0", "100")
                  /\ sink[2] = AddPerfData("cpu_prct_user", Str(Itoa(StatUser)), "%",
                                           "", "", "0", "100")
                  /\ sink[3] = AddPerfData("cpu_prct_system", Str(Itoa(StatSystem)), "%",
                                           "", "", "0", "100")
                  /\ sink[4] = AddMsg(level, "load " \o Str(Itoa(100 - StatIdle)) \o "%")
                  /\ sink[5] = AddMsg(level, "user " \o Str(Itoa(StatUser)) \o "%")
                  /\ sink[6] = AddMsg(level, "system " \o Str(Itoa(StatSystem)) \o "%")
                  /\ PlainIntegers => level = Severity(100 - StatIdle, Atoi(Warn), Atoi(Crit))

\* A run with idle 90, user 5, system 90 and -w 8 -c 30: used is 10, a
\* WARNING, and the system value of 90 is not classified.
C14_Witness ==
    /\ Ran("cpuLoad") /\ err = NoErr /\ pc = "exit"
    /\ StatIdle = 90 /\ StatUser = 5 /\ StatSystem = 90
    /\ Warn = <<"8">> /\ Crit = <<"3", "0">>
    /\ PerfData(trace)[1].value = "10"
    /\ Msgs(trace) = <<AddMsg(1, "load 10%"), AddMsg(1, "user 5%"), AddMsg(1, "system 90%")>>
    /\ exitCode = 1

(***************************************************************************)
(* Requests before output: C15                                             *)
(***************************************************************************)

\* C15: in every strategy all SNMP gets and walks are issued before the first
\* performance record or status line is appended, so a run that fails with an
\* SNMP error leaves the Result Sink empty (and exits with the default code).
C15_RequestsBeforeOutput ==
    /\ \A j, k \in DOMAIN trace :
          (j < k /\ IsSink(trace[j])) => ~IsSnmp(trace[k])
    /\ err = "SnmpError" =>
          /\ Requests(trace) # << >>
          /\ Requests(trace)[Len(Requests(trace))].err
          /\ Sink(trace) = << >>
          /\ pc = "exit" => exitCode = 3

\* A jnx run over two engines whose first get succeeds and whose second get
\* fails: nothing has been appended.
C15_Witness ==
    /\ Ran("jnxLoad") /\ err = "SnmpError" /\ pc = "exit"
    /\ Len(Requests(trace)) = 3
    /\ ~trace[3].err /\ trace[3].res # NoRows /\ trace[4].err
    /\ Sink(trace) = << >> /\ exitCode = 3

(***************************************************************************)
(* One block per selected row: C16                                         *)
(***************************************************************************)

\* The block under the name of the jnx row i reports the values fetched for
\* row i (0 for a value that is absent).
JnxRowReported(i) ==
    LET res == trace[GetFor(JnxOids(i))].res
        block == BlockNamed(JnxSelected[i], JnxDescr)
    IN  \A m \in 1..3 :
            PerfValueCount(block,
                           "'" \o Str(JnxSelected[i]) \o " " \o JnxMetric[m] \o "'",
                           Str(Itoa(Lookup(res, JnxOids(i)[m]).Gauge32))) = 1

\* The blocks of a successful jnx or cisco run are as many as the selected
\* rows, and each row's block reports the values fetched for that row.
BlockPerRow ==
    /\ (Ran("jnxLoad") /\ err = NoErr) =>
          /\ Cardinality(Headers(Sink(trace), JnxDescr)) = Cardinality(DOMAIN JnxSelected)
          /\ \A i \in DOMAIN JnxSelected : JnxRowReported(i)
    /\ (Ran("ciscoLoad") /\ err = NoErr) =>
          /\ Cardinality(Headers(Sink(trace), CiscoAllNames))
                = Cardinality(DOMAIN CiscoNamed)
          /\ \A idx \in DOMAIN CiscoNamed : \A m \in 1..2 : CiscoRowReported(idx, m)

\* No two selected rows of the run resolve to the same name.
NamesDistinct ==
    /\ Ran("jnxLoad") =>
          \A i, j \in DOMAIN JnxSelected : JnxSelected[i] = JnxSelected[j] => i = j
    /\ Ran("ciscoLoad") =>
          \A i, j \in DOMAIN CiscoNamed : CiscoNamed[i] = CiscoNamed[j] => i = j

\* C16: in a successful jnx or cisco run the number of per-entity blocks is
\* the number of rows selected from the walk, and each block reports the
\* values fetched for its own row, also when two selected rows resolve to
\* the same name.
C16_OneBlockPerSelectedRow == BlockPerRow

\* The same holds of the runs whose selected rows have distinct names.
BlockPerRowUnlessShared == NamesDistinct => BlockPerRow

\* With rows sharing a name there are fewer blocks than rows: one per name.
BlockPerName ==
    /\ (Ran("jnxLoad") /\ err = NoErr) =>
          Cardinality(Headers(Sink(trace), JnxDescr))
              = Cardinality({JnxSelected[i] : i \in DOMAIN JnxSelected})
    /\ (Ran("ciscoLoad") /\ err = NoErr) =>
          Cardinality(Headers(Sink(trace), CiscoAllNames))
              = Cardinality({CiscoNamed[i] : i \in DOMAIN CiscoNamed})

(***************************************************************************)
(* The dispatcher: C10                                                     *)
(***************************************************************************)

\* The strategy of each check type of the usage text.
StrategyOf ==
    [host |-> "hostLoad", sysstats |-> "cpuLoad", loadavg |-> "sysLoad", jnx |-> "jnxLoad",
     cisco |-> "ciscoLoad", rcsw |-> "ruggedSwLoad", moxasw |-> "moxaSwLoad"]

\* C10: Load.Get runs exactly one strategy, the one of the check type, when
\* the check type is one of the seven; for any other string it returns an
\* error and no strategy has run, no SNMP request was issued and nothing was
\* appended to the check.
C10_DispatchExactlyOne ==
    Returned =>
        IF Ctype \in DOMAIN StrategyOf
        THEN Calls(trace) = <<CallEv(StrategyOf[Ctype])>>
        ELSE err = "UnknownCheckType" /\ trace = << >>

\* Load.Get has refused the check type "systat".
C10_Witness == Returned /\ Ctype = "systat" /\ err = "UnknownCheckType" /\ pc = "ret"

====
